---- MODULE Spec2Model ----
(***************************************************************************)
(* Model of the Wiegand reader of asjoyner/wiegand-go.                     *)
(*                                                                         *)
(* The pulse-driven reader (src/unnamed/part_002) runs three goroutines:   *)
(* watchPin for D0 (bit 0), watchPin for D1 (bit 1) and processData.  They *)
(* share the bit buffer r.data, r.lastBitTime, the mutex r.mu, the 1-slot  *)
(* channel r.pulse and the cancellation context r.ctx.  Every goroutine is *)
(* cut into one action per statement that touches shared state, so that    *)
(* every interleaving the Go scheduler can produce is a behaviour.         *)
(*                                                                         *)
(* Time is counted in milliseconds and advances by the action Tick.  The   *)
(* model keeps time.Since(r.lastBitTime) instead of the absolute time; it  *)
(* saturates at r.timeout, the only value the code compares it with.       *)
(*                                                                         *)
(* The card reader on the two lines plays a script: bursts of pulses, one  *)
(* pulse per bit, the pulses of a burst less than the timeout apart, the   *)
(* bursts separated by a silence of at least the timeout.  The goroutines  *)
(* are scheduled freely: each of them can stand at any of its statements   *)
(* for any time, and the mutex goes to any of those that wait for it.      *)
(*                                                                         *)
(* Every run of a Reader starts where New returns it, or before the call   *)
(* of New: the three goroutines have not taken a step, and whatever they   *)
(* do in front of the script is a behaviour.                               *)
(*                                                                         *)
(* Spec is the Reader New has returned, in front of a 26-bit card and the  *)
(* first pulse of the next one.  CardSpec is that Reader in front of a     *)
(* 37-bit card, longer than maxBits.  NewSpec starts before the call of    *)
(* New, with the Config and the host New finds.  CallSpec is a direct call *)
(* of decodeBits, as the package's tests make it.  DecodeSpec is the       *)
(* decode step of processData on a given snapshot.  FairSpec is a fairly   *)
(* scheduled Reader on short bursts, LiveSpec adds the passing of time to  *)
(* the fairness, BufferSpec keeps the history of the buffer: every bit     *)
(* appended and every snapshot taken.                                      *)
(*                                                                         *)
(* The ticker-driven reader (src/wiegand.go) has the same monitors without *)
(* the stamp and the send, and a processData driven by a time.Ticker:      *)
(* TickerSpec is that Reader in front of the card reader, TickSpec the     *)
(* body of one tick on a given buffer.  TestpinSpec is a run of the        *)
(* testpin utility (cmd/testpin) with a given command line.                *)
(***************************************************************************)
EXTENDS Integers, Sequences, FiniteSets, TLC

(* ------------------------------ bounds -------------------------------- *)

\* Longest all-zero base frame handed to the decode step in DecodeSpec.
MaxLen == 38

\* Number of bit positions of a base frame that DecodeSpec may flip.
MaxFlips == 2

\* Milliseconds that pass in one Tick.
TickMs == 50

\* Longest pulse script of FairSpec.
MaxFairLen == 2

\* Longest slice of the exhaustive direct calls of decodeBits.
MaxCallLen == 2

\* Longest slice of the direct calls with ranges as wide as the accumulator.
MaxWide == 66

\* Longest second burst of the two-burst scripts of LiveSpec.
MaxLiveLen == 2

\* How many pulses of the second card the card reader of Spec sends.
MaxTail == 1

\* Longest value of the -pins flag of testpin, in tokens.
MaxFlagLen == 3

(* ------------------------- program constants -------------------------- *)

\* const DefaultTimeout = 100 * time.Millisecond
DefaultTimeout == 100

\* const DefaultMaxBits = 26
DefaultMaxBits == 26

\* `var siteCode, tagValue uint64`: the width of the two accumulators.
WordBits == 64

(* ------------------------------ helpers ------------------------------- *)

Min(a, b) == IF a < b THEN a ELSE b

Max(a, b) == IF a > b THEN a ELSE b

\* strconv of one decimal digit, as fmt.Sprintf("%d", ...) prints it.
Digit(d) ==
    CASE d = 0 -> "0" [] d = 1 -> "1" [] d = 2 -> "2" [] d = 3 -> "3"
      [] d = 4 -> "4" [] d = 5 -> "5" [] d = 6 -> "6" [] d = 7 -> "7"
      [] d = 8 -> "8" [] d = 9 -> "9"

\* fmt.Sprintf("%d", n) for an unsigned n: the decimal digits, most
\* significant first, no leading zero, "0" for zero.
RECURSIVE Sprintf(_)
Sprintf(n) == IF n < 10 THEN Digit(n) ELSE Sprintf(n \div 10) \o Digit(n % 10)

(* ------------------------- the frame decoder -------------------------- *)

\* A checkParity whose loop stops one bit early.
checkParityShort(bits, start, length, even) ==
    IF start + length > Len(bits) THEN FALSE
    ELSE LET parity == Cardinality({i \in start..(start + length - 2) : bits[i + 1] = 1})
         IN  IF even THEN parity % 2 = 0 ELSE parity % 2 = 1

\* A checkParity that ignores its even flag and always tests for even.
checkParityEvenOnly(bits, start, length, even) ==
    IF start + length > Len(bits) THEN FALSE
    ELSE LET parity == Cardinality({i \in start..(start + length - 1) : bits[i + 1] = 1})
         IN  parity % 2 = 0

\* func checkParity(bits []byte, start, length int, even bool) bool.
\* Go slices are 0-indexed, sequences 1-indexed: bits[i] is bits[i + 1] here.
checkParity(bits, start, length, even) ==
    IF start + length > Len(bits) THEN FALSE
    ELSE LET parity == Cardinality({i \in start..(start + length - 1) : bits[i + 1] = 1})
         IN  IF even THEN parity % 2 = 0 ELSE parity % 2 = 1

\* An accumulation that adds the bits instead of shifting them in.
RECURSIVE AccumulateNoShift(_, _, _, _)
AccumulateNoShift(bits, start, length, v) ==
    IF length <= 0 THEN v
    ELSE AccumulateNoShift(bits, start + 1, length - 1, v + bits[start + 1])

\* The accumulation loop of decodeBits: v = (v << 1) | uint64(bits[start+i])
\* for i = 0 .. length-1, starting from 0.  The accumulator is an integer
\* here, which holds for ranges of up to 30 bits.
RECURSIVE Accumulate(_, _, _, _)
Accumulate(bits, start, length, v) ==
    IF length <= 0 THEN v
    ELSE Accumulate(bits, start + 1, length - 1, 2 * v + bits[start + 1])

\* A uint64 as the sequence of its bits, most significant first, leading
\* zeros left out: what is left of w in a word of WordBits bits.
Word(w) == IF Len(w) > WordBits THEN SubSeq(w, Len(w) - WordBits + 1, Len(w)) ELSE w

\* The same loop on such a word.  Each iteration shifts the word left by one,
\* dropping the bit that leaves it at the top, and sets the lowest bit to
\* bits[start+i]: after the loop the word is what a word keeps of w followed
\* by the bits of the range.
AccumulateWord(bits, start, length, w) ==
    IF length <= 0 THEN w
    ELSE Word(w \o SubSeq(bits, start + 1, start + length))

\* Long division by ten of the bits w, r being the remainder brought in
\* from the bits before them: the quotient bits, as many as w has, and the
\* remainder.  The bits are divided half by half, the remainder of the first
\* half going into the second.
RECURSIVE DivFrom(_, _)
DivFrom(w, r) ==
    IF w = <<>> THEN [q |-> <<>>, r |-> r]
    ELSE IF Len(w) = 1
    THEN LET v == 2 * r + w[1]
         IN  IF v >= 10 THEN [q |-> <<1>>, r |-> v - 10] ELSE [q |-> <<0>>, r |-> v]
    ELSE LET h     == Len(w) \div 2
             left  == DivFrom(SubSeq(w, 1, h), r)
             right == DivFrom(SubSeq(w, h + 1, Len(w)), left.r)
         IN  [q |-> left.q \o right.q, r |-> right.r]

\* w divided by ten.
DivTen(w) == DivFrom(w, 0)

\* fmt.Sprintf("%d", w) for a uint64 kept as its bits.
RECURSIVE SprintfWord(_)
SprintfWord(w) ==
    LET d == DivTen(w)
    IN  IF \A i \in 1..Len(d.q) : d.q[i] = 0 THEN Digit(d.r)
        ELSE SprintfWord(d.q) \o Digit(d.r)

\* One field of decodeBits: the loop over the range and the Sprintf of its
\* result.  The integers of the model checker have 32 bits, so only a range
\* of up to 30 bits is accumulated in an integer and a wider one in a word
\* of bits; the arithmetic is the same uint64 arithmetic.
Field(bits, start, length) ==
    IF length <= 30 THEN Sprintf(Accumulate(bits, start, length, 0))
    ELSE SprintfWord(AccumulateWord(bits, start, length, <<>>))

\* The tests of decodeBits that leave out the validation of the bit values.
InputErrorRangesOnly(bits, siteCodeStart, siteCodeLength, tagStart, tagLength) ==
    \/ Len(bits) < tagStart + tagLength
    \/ siteCodeStart + siteCodeLength > Len(bits)

\* The three tests of decodeBits that return an error: the tag range and the
\* site-code range against len(bits), then every element of bits.
InputError(bits, siteCodeStart, siteCodeLength, tagStart, tagLength) ==
    \/ Len(bits) < tagStart + tagLength
    \/ siteCodeStart + siteCodeLength > Len(bits)
    \/ \E i \in 1..Len(bits) : bits[i] # 0 /\ bits[i] # 1

\* func decodeBits(bits, siteCodeStart, siteCodeLength, tagStart, tagLength)
\* (string, string, error): the tuple <<first result, second result, err>>,
\* err being TRUE for a non-nil error.
decodeBits(bits, siteCodeStart, siteCodeLength, tagStart, tagLength) ==
    IF InputError(bits, siteCodeStart, siteCodeLength, tagStart, tagLength)
    THEN <<"", "", TRUE>>
    ELSE <<Field(bits, siteCodeStart, siteCodeLength),
           Field(bits, tagStart, tagLength), FALSE>>

\* bits[bitIndex] in one of the two loops is an index out of range: the call
\* panics instead of returning.
IndexPanics(bits, start, length) ==
    \E i \in 0..(length - 1) : start + i < 0 \/ start + i >= Len(bits)

\* One case of the switch of processData: decode, then both parity checks,
\* then `go r.callback(tag)`.  The code names the FIRST result of decodeBits
\* `tag` and the second `site`.  The result says whether a callback is
\* dispatched, with which argument, and whether decodeBits returned an error.
SwitchCase(data, ss, sl, ts, tl, leadLen, trailLen) ==
    LET res  == decodeBits(data, ss, sl, ts, tl)
        tag  == res[1]
        site == res[2]
        err  == res[3]
    IN  IF err THEN [dispatch |-> FALSE, arg |-> "", err |-> TRUE]
        ELSE IF ~checkParity(data, 0, leadLen, TRUE)
                \/ ~checkParity(data, leadLen, trailLen, FALSE)
             THEN [dispatch |-> FALSE, arg |-> "", err |-> FALSE]
        ELSE [dispatch |-> TRUE, arg |-> tag, err |-> FALSE]

\* A switch that has lost its 34-bit case.
DecodeNo34(data) ==
    IF Len(data) = 0 THEN [dispatch |-> FALSE, arg |-> "", err |-> FALSE]
    ELSE CASE Len(data) = 26 -> SwitchCase(data, 1, 8, 9, 16, 13, 13)
           [] Len(data) = 37 -> SwitchCase(data, 1, 19, 20, 16, 19, 18)
           [] OTHER -> [dispatch |-> FALSE, arg |-> "", err |-> FALSE]

\* A switch whose 26-bit case asks for a tag range of 18 bits, one bit beyond
\* the frame.
DecodeTag26TooLong(data) ==
    IF Len(data) = 0 THEN [dispatch |-> FALSE, arg |-> "", err |-> FALSE]
    ELSE CASE Len(data) = 26 -> SwitchCase(data, 1, 8, 9, 18, 13, 13)
           [] Len(data) = 34 -> SwitchCase(data, 1, 17, 18, 16, 17, 17)
           [] Len(data) = 37 -> SwitchCase(data, 1, 19, 20, 16, 19, 18)
           [] OTHER -> [dispatch |-> FALSE, arg |-> "", err |-> FALSE]

\* The two ranges processData hands to decodeBits for a snapshot of n bits,
\* n being 26, 34 or 37: the literals of the three calls.
DecodeArgs(n) ==
    CASE n = 26 -> [siteCodeStart |-> 1, siteCodeLength |-> 8, tagStart |-> 9, tagLength |-> 16]
      [] n = 34 -> [siteCodeStart |-> 1, siteCodeLength |-> 17, tagStart |-> 18, tagLength |-> 16]
      [] n = 37 -> [siteCodeStart |-> 1, siteCodeLength |-> 19, tagStart |-> 20, tagLength |-> 16]

\* processData from `if len(data) == 0` to the end of the switch.
Decode(data) ==
    IF Len(data) = 0 THEN [dispatch |-> FALSE, arg |-> "", err |-> FALSE]
    ELSE CASE Len(data) = 26 -> SwitchCase(data, 1, 8, 9, 16, 13, 13)
           [] Len(data) = 34 -> SwitchCase(data, 1, 17, 18, 16, 17, 17)
           [] Len(data) = 37 -> SwitchCase(data, 1, 19, 20, 16, 19, 18)
           [] OTHER -> [dispatch |-> FALSE, arg |-> "", err |-> FALSE]

(* ---------------------------- pulse scripts --------------------------- *)

\* The bit vectors of the repository's own examples and tests.
\* decodeBits doc comment (and the test "Invalid site code range").
E2EBits == <<1,0,0,0,0,0,0,1,0,1,0,1,0,1,0,1,0,1,0,1,0,1,0,1,0,0>>

\* Test "26-bit Wiegand with site code".
Low26 == <<0,0,0,0,0,0,0,0,0,0,1,0,1,0,1,0,1,0,1,0,1,0,1,0,1,1>>

\* Test "26-bit Wiegand with high value tag".
High26 == <<1,0,0,0,0,1,1,1,1,0,1,0,0,0,0,1,0,0,0,1,1,1,1,1,1,0>>

\* Test "34-bit Wiegand with larger site code".
Test34 == <<1,0,1,1,0,0,1,1,0,0,1,1,0,0,1,1,0,0,1,1,0,0,1,1,0,0,1,1,0,0,1,1,0,0>>

\* Test "37-bit Wiegand with larger site code".
Test37 == <<1,0,1,1,1,0,0,1,1,1,0,0,1,1,1,0,0,1,1,1,0,0,1,1,0,0,1,1,0,0,1,1,0,0,1,1,0>>

\* bits with the bit at (1-indexed) position p inverted; p = 0 changes nothing.
Flip(bits, p) ==
    IF p < 1 \/ p > Len(bits) THEN bits
    ELSE SubSeq(bits, 1, p - 1) \o <<1 - bits[p]>> \o SubSeq(bits, p + 1, Len(bits))

RECURSIVE FlipAll(_, _)
FlipAll(bits, ps) ==
    IF ps = <<>> THEN bits ELSE FlipAll(Flip(bits, Head(ps)), Tail(ps))

Zeros(n) == [i \in 1..n |-> 0]

Ones(n) == [i \in 1..n |-> 1]

\* Cards with correct parity for the concurrent model.
\* 26 bits, site code bits[1..9) = 0, bits[9..25) = 3.
CardA == Zeros(23) \o Ones(3)

\* 26 bits, site code bits[1..9) = 15, bits[9..25) = 65535.
CardB == Zeros(5) \o Ones(21)

\* 37 bits, bits[1..20) = 0, bits[20..36) = 3.
Card37 == Zeros(34) \o Ones(3)

\* What the card reader sends in the concurrent model, a sequence of bursts:
\* a pulse on D0 for a 0, on D1 for a 1.  Two 26-bit cards one after the
\* other, the second one as far as its first pulses.
Scripts == {<<CardA, SubSeq(CardB, 1, MaxTail)>>}

\* The snapshots handed to the decode step in DecodeSpec: every all-zero
\* frame of up to MaxLen bits and every vector above, with up to MaxFlips bits
\* inverted.
Bases == {Zeros(n) : n \in 0..MaxLen} \cup {E2EBits, Low26, High26, Test34, Test37}

\* The frames made from the base b.  Flips commute, so the positions are
\* taken in non-decreasing order only.
Frames(b) ==
    {FlipAll(b, ps) : ps \in {qs \in [1..MaxFlips -> 0..Len(b)] :
                                 \A i \in 1..(MaxFlips - 1) : qs[i] <= qs[i + 1]}}

\* The direct calls of decodeBits.  Those of TestDecodeBits, which hands its
\* shift and maskBits as the site-code range and its siteCodeStart and
\* siteCodeLength as the tag range.
Args(bits, a, b, c, d) ==
    [bits |-> bits, siteCodeStart |-> a, siteCodeLength |-> b,
     tagStart |-> c, tagLength |-> d]

TestCalls ==
    {Args(<<>>, 0, 0, 0, 0),
     Args(Low26, 1, 24, 1, 8),
     Args(High26, 1, 24, 1, 8),
     Args(Test34, 1, 32, 1, 16),
     Args(Test37, 1, 35, 1, 19),
     Args(<<1, 0, 1>>, 1, 3, 0, 1),
     Args(E2EBits, 1, 24, 25, 2),
     Args(<<1, 2>> \o Zeros(24), 1, 24, 1, 8)}

\* Every slice of up to MaxCallLen elements 0, 1 or 2 with every pair of
\* ranges whose starts and lengths go from -1 to one past MaxCallLen.
SmallCalls ==
    UNION {[bits : [1..n -> {0, 1, 2}],
            siteCodeStart : -1..(MaxCallLen + 1), siteCodeLength : -1..(MaxCallLen + 1),
            tagStart : -1..(MaxCallLen + 1), tagLength : -1..(MaxCallLen + 1)]
           : n \in 0..MaxCallLen}

\* Slices about as long as the accumulator is wide, all ones or a one and
\* zeros, with the site-code range the whole slice or all but its first bit
\* and the tag range what follows a given start.
WideBits == UNION {{Ones(n), <<1>> \o Zeros(n - 1)} : n \in (WordBits - 1)..MaxWide}

WideCalls ==
    UNION {{Args(w, a, Len(w) - a, c, Len(w) - c) : a \in {0, 1}, c \in {0, 1, Len(w)}}
           : w \in WideBits}

Calls == TestCalls \cup SmallCalls \cup WideCalls

\* The bursts of up to n pulses, none of them empty.
Bursts(n) == UNION {[1..k -> {0, 1}] : k \in 1..n}

\* The scripts of FairSpec: one burst, every bit string of up to MaxFairLen
\* bits.
ShortScripts == UNION {{<<s>> : s \in [1..n -> {0, 1}]} : n \in 0..MaxFairLen}

(* ------------------------------- state -------------------------------- *)

VARIABLES
    data,        \* r.data: the shared bit buffer
    sinceLast,   \* time.Since(r.lastBitTime) in ms, saturating at r.timeout
    mu,          \* r.mu: "free" or the goroutine holding it
    pulse,       \* r.pulse (capacity 1): TRUE when it holds a token
    cancelled,   \* r.ctx is done
    timeout,     \* r.timeout in ms
    maxBits,     \* r.maxBits
    wpc,         \* wpc[b]: where watchPin(pin, b) stands
    pdpc,        \* where processData stands
    timer,       \* ms left on processData's time.After channel
    frame,       \* processData's local copy `data` of the buffer, <<>> outside
                 \* the iteration that declares it
    calls,       \* the arguments of the dispatched `go r.callback(tag)`
    script,      \* the bursts the card reader sends
    burst,       \* the burst being played
    idx,         \* how many pulses of it have been observed
    gap,         \* ms since the last pulse, saturating at r.timeout
    order,       \* the lines whose monitor has observed a pulse and not yet
                 \* taken the lock, in the order of the observations
    config,      \* the Config handed to New
    hw,          \* what periph finds on the host: host.Init, gpioreg, PinIO.In
    newErr,      \* the text of the error New returned, "" for nil
    running,     \* how many `go r.callback(tag)` goroutines have not returned
    call,        \* the arguments of a direct call of decodeBits
    ret,         \* what that call did
    tickerC,     \* ticker.C of the ticker-driven reader holds a tick
    testpin,     \* the run of the testpin utility
    arg,         \* the local `data` of the ticker-driven processData: the
                 \* decimal string it is about to pass to the callback
    recording,   \* whether the history of the buffer is kept
    appended,    \* history: every bit appended to r.data so far, in order
    taken        \* history: the snapshots taken so far, one after the other

vars == <<data, sinceLast, mu, pulse, cancelled, timeout, maxBits, wpc, pdpc,
          timer, frame, calls, script, burst, idx, gap, order,
          config, hw, newErr, running, call, ret, tickerC, testpin, arg,
          recording, appended, taken>>

\* The card reader and its clock.
env == <<script, burst, idx, gap, order>>

\* The configuration New has stored.
cfg == <<timeout, maxBits>>

\* The call of New: its argument, the host it ran on, the error it returned.
ctor == <<config, hw, newErr>>

\* A direct call of decodeBits, as the package's tests make it.
direct == <<call, ret>>

\* What belongs to the ticker-driven reader and to the testpin utility only.
aux == <<tickerC, testpin, arg>>

\* The history of the buffer.
hist == <<recording, appended, taken>>

Lines == {0, 1}

Holder(b) == IF b = 0 THEN "d0" ELSE "d1"

\* A default that replaces only a negative Timeout.
NewTimeoutNegOnly(cfgTimeout) == IF cfgTimeout < 0 THEN DefaultTimeout ELSE cfgTimeout

\* New: `if cfg.Timeout <= 0 { cfg.Timeout = DefaultTimeout }`.
NewTimeout(cfgTimeout) == IF cfgTimeout <= 0 THEN DefaultTimeout ELSE cfgTimeout

\* New: `if cfg.MaxBits <= 0 { cfg.MaxBits = DefaultMaxBits }`.
NewMaxBits(cfgMaxBits) == IF cfgMaxBits <= 0 THEN DefaultMaxBits ELSE cfgMaxBits

\* New returning (nil, error): the text of the error, no Reader.
Fail(text) == [err |-> text, timeout |-> 0, maxBits |-> 0]

\* A New that has lost its test of cfg.Callback.
NewNoCallbackTest(c, h) ==
    IF h.hostErr # ""
    THEN Fail("failed to initialize periph host: " \o h.hostErr)
    ELSE IF c.D0Pin = "" \/ c.D1Pin = ""
    THEN Fail("D0Pin and D1Pin must be specified")
    ELSE IF c.D0Pin \notin h.registered \/ c.D1Pin \notin h.registered
    THEN Fail("invalid GPIO pins: D0=" \o c.D0Pin \o ", D1=" \o c.D1Pin)
    ELSE IF h.inErr[c.D0Pin] # ""
    THEN Fail("failed to configure D0 pin " \o c.D0Pin \o ": " \o h.inErr[c.D0Pin])
    ELSE IF h.inErr[c.D1Pin] # ""
    THEN Fail("failed to configure D1 pin " \o c.D1Pin \o ": " \o h.inErr[c.D1Pin])
    ELSE [err |-> "", timeout |-> NewTimeout(c.Timeout), maxBits |-> NewMaxBits(c.MaxBits)]

\* func New(ctx, cfg) (*Reader, error), up to the Reader literal: the error it
\* returns ("" for nil) and the timeout and maxBits it stores.  c is the
\* Config, c.Callback being TRUE for a non-nil function.  h is the host:
\* h.hostErr the error of host.Init ("" for nil), h.registered the pin names
\* gpioreg.ByName resolves, h.inErr[p] the error of p.In ("" for nil).
New(c, h) ==
    IF h.hostErr # ""
    THEN Fail("failed to initialize periph host: " \o h.hostErr)
    ELSE IF c.D0Pin = "" \/ c.D1Pin = ""
    THEN Fail("D0Pin and D1Pin must be specified")
    ELSE IF ~c.Callback
    THEN Fail("callback function must be provided")
    ELSE IF c.D0Pin \notin h.registered \/ c.D1Pin \notin h.registered
    THEN Fail("invalid GPIO pins: D0=" \o c.D0Pin \o ", D1=" \o c.D1Pin)
    ELSE IF h.inErr[c.D0Pin] # ""
    THEN Fail("failed to configure D0 pin " \o c.D0Pin \o ": " \o h.inErr[c.D0Pin])
    ELSE IF h.inErr[c.D1Pin] # ""
    THEN Fail("failed to configure D1 pin " \o c.D1Pin \o ": " \o h.inErr[c.D1Pin])
    ELSE [err |-> "", timeout |-> NewTimeout(c.Timeout), maxBits |-> NewMaxBits(c.MaxBits)]

\* The pin names of the README, both registered and configurable: a
\* Raspberry Pi with nothing else on the two lines.
GoodHw ==
    [hostErr |-> "", registered |-> {"GPIO14", "GPIO15"},
     inErr |-> [p \in {"GPIO14", "GPIO15"} |-> ""]]

\* The Config of the README's example: 100 ms, 26 bits.
ReadmeConfig ==
    [D0Pin |-> "GPIO14", D1Pin |-> "GPIO15", Callback |-> TRUE,
     Timeout |-> 100, MaxBits |-> 26]

\* No direct call of decodeBits is under way.
NoCall == [made |-> FALSE]

NoRet == [done |-> FALSE, panic |-> FALSE, out |-> <<"", "", FALSE>>]

\* The testpin utility is not run.
NoRun == [pc |-> "none"]

\* The Reader as New returns it, the three goroutines started and none of
\* them having run yet, in front of a card reader that will play s.  The
\* zero r.lastBitTime lies further back than any timeout.  rec says whether
\* the history of the buffer is kept.
StartedWith(s, rec) ==
    /\ config = ReadmeConfig
    /\ hw = GoodHw
    /\ newErr = New(config, hw).err
    /\ call = NoCall
    /\ ret = NoRet
    /\ tickerC = FALSE
    /\ testpin = NoRun
    /\ arg = ""
    /\ data = <<>>
    /\ timeout = New(config, hw).timeout
    /\ maxBits = New(config, hw).maxBits
    /\ sinceLast = timeout
    /\ mu = "free"
    /\ pulse = FALSE
    /\ cancelled = FALSE
    /\ wpc = [b \in Lines |-> "loop"]
    /\ pdpc = "outer"
    /\ timer = 0
    /\ frame = <<>>
    /\ calls = <<>>
    /\ running = 0
    /\ recording = rec
    /\ appended = <<>>
    /\ taken = <<>>
    /\ script = s
    /\ burst = 1
    /\ idx = 0
    /\ gap = timeout
    /\ order = <<>>

Started(s) == StartedWith(s, FALSE)

Init == \E s \in Scripts : Started(s)

(* ------------------------------ watchPin ------------------------------ *)

\* A watchPin whose loop never looks at the context.
WLoopNoCancel(b) ==
    /\ wpc[b] = "loop"
    /\ wpc' = [wpc EXCEPT ![b] = "wait"]
    /\ UNCHANGED <<data, sinceLast, mu, pulse, cancelled, cfg, ctor, direct, aux, hist, running,
                   pdpc, timer, frame, calls, env>>

\* `select { case <-r.ctx.Done(): return; default: ... }`: the default branch
\* runs only when the context is not done.
WLoop(b) ==
    /\ wpc[b] = "loop"
    /\ wpc' = [wpc EXCEPT ![b] = IF cancelled THEN "done" ELSE "wait"]
    /\ UNCHANGED <<data, sinceLast, mu, pulse, cancelled, cfg, ctor, direct, aux, hist, running,
                   pdpc, timer, frame, calls, env>>

\* `pin.WaitForEdge(1*time.Second) && pin.Read() == gpio.Low` is true: the
\* next pulse of the card is on this line and the monitor has observed it.
\* It is the next pulse of the burst, or, after a silence of the timeout, the
\* first pulse of the next burst.
WEdge(b) ==
    /\ wpc[b] = "wait"
    /\ \/ /\ idx < Len(script[burst])
          /\ script[burst][idx + 1] = b
          /\ idx' = idx + 1
          /\ burst' = burst
       \/ /\ idx = Len(script[burst])
          /\ burst < Len(script)
          /\ gap >= timeout
          /\ script[burst + 1][1] = b
          /\ idx' = 1
          /\ burst' = burst + 1
    /\ gap' = 0
    /\ order' = Append(order, b)
    /\ wpc' = [wpc EXCEPT ![b] = "lock"]
    /\ UNCHANGED <<data, sinceLast, mu, pulse, cancelled, cfg, ctor, direct, aux, hist, running,
                   pdpc, timer, frame, calls, script>>

\* The same condition is false: WaitForEdge ran into its one-second bound.
WNoEdge(b) ==
    /\ wpc[b] = "wait"
    /\ wpc' = [wpc EXCEPT ![b] = "loop"]
    /\ UNCHANGED <<data, sinceLast, mu, pulse, cancelled, cfg, ctor, direct, aux, hist, running,
                   pdpc, timer, frame, calls, env>>

\* A Lock that does not wait for the mutex to be free.
WLockNoMutex(b) ==
    /\ wpc[b] = "lock"
    /\ order' = SelectSeq(order, LAMBDA x : x # b)
    /\ mu' = Holder(b)
    /\ wpc' = [wpc EXCEPT ![b] = "append"]
    /\ UNCHANGED <<data, sinceLast, pulse, cancelled, cfg, ctor, direct, aux, hist, running,
                   pdpc, timer, frame, calls, script, burst, idx, gap>>

\* r.mu.Lock().  The mutex is taken in any order, whoever observed its pulse
\* first.
WLock(b) ==
    /\ wpc[b] = "lock"
    /\ mu = "free"
    /\ order' = SelectSeq(order, LAMBDA x : x # b)
    /\ mu' = Holder(b)
    /\ wpc' = [wpc EXCEPT ![b] = "append"]
    /\ UNCHANGED <<data, sinceLast, pulse, cancelled, cfg, ctor, direct, aux, hist, running,
                   pdpc, timer, frame, calls, script, burst, idx, gap>>

\* r.data = append(r.data, bit); r.lastBitTime = time.Now()
WAppend(b) ==
    /\ wpc[b] = "append"
    /\ data' = Append(data, b)
    /\ appended' = IF recording THEN Append(appended, b) ELSE appended
    /\ sinceLast' = 0
    /\ wpc' = [wpc EXCEPT ![b] = "signal"]
    /\ UNCHANGED <<mu, pulse, cancelled, cfg, ctor, direct, aux, recording, taken, running,
                   pdpc, timer, frame, calls, env>>

\* A send on an unbuffered channel: it gets through only when processData
\* stands at a receive.
WSignalUnbuffered(b) ==
    /\ wpc[b] = "signal"
    /\ pulse' = (pulse \/ pdpc \in {"outer", "inner"})
    /\ wpc' = [wpc EXCEPT ![b] = "unlock"]
    /\ UNCHANGED <<data, sinceLast, mu, cancelled, cfg, ctor, direct, aux, hist, running,
                   pdpc, timer, frame, calls, env>>

\* A blocking send, `r.pulse <- true` without the default case: it waits
\* while the channel is full.
WSignalBlocking(b) ==
    /\ wpc[b] = "signal"
    /\ ~pulse
    /\ pulse' = TRUE
    /\ wpc' = [wpc EXCEPT ![b] = "unlock"]
    /\ UNCHANGED <<data, sinceLast, mu, cancelled, cfg, ctor, direct, aux, hist, running,
                   pdpc, timer, frame, calls, env>>

\* `select { case r.pulse <- true: default: }`: a non-blocking send; a full
\* channel keeps its one token.
WSignal(b) ==
    /\ wpc[b] = "signal"
    /\ pulse' = TRUE
    /\ wpc' = [wpc EXCEPT ![b] = "unlock"]
    /\ UNCHANGED <<data, sinceLast, mu, cancelled, cfg, ctor, direct, aux, hist, running,
                   pdpc, timer, frame, calls, env>>

\* r.mu.Unlock()
WUnlock(b) ==
    /\ wpc[b] = "unlock"
    /\ mu' = "free"
    /\ wpc' = [wpc EXCEPT ![b] = "loop"]
    /\ UNCHANGED <<data, sinceLast, pulse, cancelled, cfg, ctor, direct, aux, hist, running,
                   pdpc, timer, frame, calls, env>>

(* ----------------------------- processData ---------------------------- *)

\* Outer select, case <-r.ctx.Done(): return.
POuterDone ==
    /\ pdpc = "outer"
    /\ cancelled
    /\ pdpc' = "done"
    /\ UNCHANGED <<data, sinceLast, mu, pulse, cancelled, cfg, ctor, direct, aux, hist, running,
                   wpc, timer, frame, calls, env>>

\* Outer select, case <-r.pulse.  With both cases ready Go picks either.
POuterPulse ==
    /\ pdpc = "outer"
    /\ pulse
    /\ pulse' = FALSE
    /\ pdpc' = "cond"
    /\ UNCHANGED <<data, sinceLast, mu, cancelled, cfg, ctor, direct, aux, hist, running,
                   wpc, timer, frame, calls, env>>

\* `for time.Since(r.lastBitTime) < r.timeout`: read without the lock.
PCond ==
    /\ pdpc = "cond"
    /\ pdpc' = IF sinceLast < timeout THEN "arm" ELSE "lock"
    /\ UNCHANGED <<data, sinceLast, mu, pulse, cancelled, cfg, ctor, direct, aux, hist, running,
                   wpc, timer, frame, calls, env>>

\* Entering the inner select evaluates
\* time.After(r.timeout - time.Since(r.lastBitTime)), a second read.
PArm ==
    /\ pdpc = "arm"
    /\ timer' = Max(0, timeout - sinceLast)
    /\ pdpc' = "inner"
    /\ UNCHANGED <<data, sinceLast, mu, pulse, cancelled, cfg, ctor, direct, aux, hist, running,
                   wpc, frame, calls, env>>

\* Inner select, case <-r.pulse.
PInnerPulse ==
    /\ pdpc = "inner"
    /\ pulse
    /\ pulse' = FALSE
    /\ timer' = 0
    /\ pdpc' = "cond"
    /\ UNCHANGED <<data, sinceLast, mu, cancelled, cfg, ctor, direct, aux, hist, running,
                   wpc, frame, calls, env>>

\* Inner select, case <-r.ctx.Done(): return.
PInnerDone ==
    /\ pdpc = "inner"
    /\ cancelled
    /\ timer' = 0
    /\ pdpc' = "done"
    /\ UNCHANGED <<data, sinceLast, mu, pulse, cancelled, cfg, ctor, direct, aux, hist, running,
                   wpc, frame, calls, env>>

\* Inner select, case <-time.After(...): the timer has run out.
PInnerTimer ==
    /\ pdpc = "inner"
    /\ timer = 0
    /\ pdpc' = "cond"
    /\ UNCHANGED <<data, sinceLast, mu, pulse, cancelled, cfg, ctor, direct, aux, hist, running,
                   wpc, timer, frame, calls, env>>

\* r.mu.Lock()
PLock ==
    /\ pdpc = "lock"
    /\ mu = "free"
    /\ mu' = "pd"
    /\ pdpc' = "snap"
    /\ UNCHANGED <<data, sinceLast, pulse, cancelled, cfg, ctor, direct, aux, hist, running,
                   wpc, timer, frame, calls, env>>

\* A snapshot that forgets `r.data = r.data[:0]`.
PSnapNoReset ==
    /\ pdpc = "snap"
    /\ frame' = data
    /\ taken' = IF recording THEN taken \o data ELSE taken
    /\ mu' = "free"
    /\ pdpc' = "decode"
    /\ UNCHANGED <<data, sinceLast, pulse, cancelled, cfg, ctor, direct, aux, recording,
                   appended, running, wpc, timer, calls, env>>

\* data := copy of r.data; r.data = r.data[:0]; r.mu.Unlock()
PSnap ==
    /\ pdpc = "snap"
    /\ frame' = data
    /\ taken' = IF recording THEN taken \o data ELSE taken
    /\ data' = <<>>
    /\ mu' = "free"
    /\ pdpc' = "decode"
    /\ UNCHANGED <<sinceLast, pulse, cancelled, cfg, ctor, direct, aux, recording, appended, running,
                   wpc, timer, calls, env>>

\* A processData that returns when it rejects a snapshot.
PDecodeStopOnReject ==
    /\ pdpc = "decode"
    /\ LET d == Decode(frame)
       IN  /\ calls' = IF d.dispatch THEN Append(calls, d.arg) ELSE calls
           /\ running' = IF d.dispatch THEN running + 1 ELSE running
           /\ pdpc' = IF d.dispatch \/ frame = <<>> THEN "outer" ELSE "done"
    /\ frame' = <<>>
    /\ UNCHANGED <<data, sinceLast, mu, pulse, cancelled, cfg, ctor, direct, aux, hist,
                   wpc, timer, env>>

\* From `if len(data) == 0` through the switch, `go r.callback(tag)`
\* included, back to the top of the outer loop.  The local `data` is declared
\* in the body of the case and ends with the iteration.
PDecode ==
    /\ pdpc = "decode"
    /\ LET d == Decode(frame)
       IN  /\ calls' = IF d.dispatch THEN Append(calls, d.arg) ELSE calls
           /\ running' = IF d.dispatch THEN running + 1 ELSE running
    /\ pdpc' = "outer"
    /\ frame' = <<>>
    /\ UNCHANGED <<data, sinceLast, mu, pulse, cancelled, cfg, ctor, direct, aux, hist,
                   wpc, timer, env>>

\* A callback started by `go r.callback(tag)` returns.  It need not: nothing
\* in the Reader waits for it.
CallbackReturn ==
    /\ running > 0
    /\ running' = running - 1
    /\ UNCHANGED <<data, sinceLast, mu, pulse, cancelled, cfg, ctor, direct, aux, hist,
                   wpc, pdpc, timer, frame, calls, env>>

(* ------------------------- lifecycle and time ------------------------- *)

\* func (r *Reader) Close(): r.cancel().  There is a Reader to close only
\* once New has returned one.
Close ==
    /\ pdpc # "none"
    /\ cancelled' = TRUE
    /\ UNCHANGED <<data, sinceLast, mu, pulse, cfg, ctor, direct, aux, hist, running, wpc, pdpc,
                   timer, frame, calls, env>>

\* The caller cancels the context it passed to New; r.ctx, derived from it
\* by context.WithCancel, is done with it.
CancelParent ==
    /\ cancelled' = TRUE
    /\ UNCHANGED <<data, sinceLast, mu, pulse, cfg, ctor, direct, aux, hist, running, wpc, pdpc,
                   timer, frame, calls, env>>

\* The card reader sends the next pulse of a burst less than the timeout
\* after the one before it, and the monitor of its line is inside WaitForEdge:
\* that call returns before the timeout has passed since the last pulse.
Awaited ==
    /\ idx < Len(script[burst])
    /\ gap < timeout
    /\ wpc[script[burst][idx + 1]] = "wait"

\* TickMs milliseconds pass.  The goroutines are held to no pace: a monitor
\* can stand anywhere outside WaitForEdge while time passes, before its Lock
\* and inside its critical section too, and so can processData anywhere.
Tick ==
    /\ Awaited => gap + TickMs < timeout
    /\ sinceLast' = Min(sinceLast + TickMs, timeout)
    /\ gap' = Min(gap + TickMs, timeout)
    /\ timer' = Max(timer - TickMs, 0)
    /\ UNCHANGED <<data, mu, pulse, cancelled, cfg, ctor, direct, aux, hist, running, wpc, pdpc,
                   frame, calls, script, burst, idx, order>>

\* Every step of the three goroutines, of the caller and of the clock.
ReaderNext ==
    \/ \E b \in Lines : WLoop(b)
    \/ \E b \in Lines : WEdge(b)
    \/ \E b \in Lines : WNoEdge(b)
    \/ \E b \in Lines : WLock(b)
    \/ \E b \in Lines : WAppend(b)
    \/ \E b \in Lines : WSignal(b)
    \/ \E b \in Lines : WUnlock(b)
    \/ POuterDone
    \/ POuterPulse
    \/ PCond
    \/ PArm
    \/ PInnerPulse
    \/ PInnerDone
    \/ PInnerTimer
    \/ PLock
    \/ PSnap
    \/ PDecode
    \/ Close
    \/ CancelParent
    \/ Tick

\* The same with the callbacks that were dispatched.
Next == ReaderNext \/ CallbackReturn

Spec == Init /\ [][Next]_vars

(* ----------------------- the decode step alone ------------------------ *)

\* processData holding the snapshot f, about to decode it: the card sent f,
\* the monitors appended it, the silence passed and the buffer was cleared.
Snapshotted(f) ==
    /\ config = ReadmeConfig
    /\ hw = GoodHw
    /\ newErr = ""
    /\ running = 0
    /\ call = NoCall
    /\ ret = NoRet
    /\ tickerC = FALSE
    /\ testpin = NoRun
    /\ arg = ""
    /\ data = <<>>
    /\ timeout = NewTimeout(0)
    /\ maxBits = NewMaxBits(0)
    /\ sinceLast = timeout
    /\ mu = "free"
    /\ pulse = FALSE
    /\ cancelled = FALSE
    /\ wpc = [b \in Lines |-> "loop"]
    /\ pdpc = "decode"
    /\ timer = 0
    /\ frame = f
    /\ recording = FALSE
    /\ appended = <<>>
    /\ taken = <<>>
    /\ calls = <<>>
    /\ script = <<f>>
    /\ burst = 1
    /\ idx = Len(f)
    /\ gap = timeout
    /\ order = <<>>

DecodeInit == \E b \in Bases : \E f \in Frames(b) : Snapshotted(f)

DecodeNext == PDecode

DecodeSpec == DecodeInit /\ [][DecodeNext]_vars

(* ---------------------------- construction ---------------------------- *)

\* The Configs handed to New: each pin name empty, the README's, or the
\* unregistered name of TestNewReader; a callback or nil; a Timeout and a
\* MaxBits below zero, zero and above.
Configs ==
    [D0Pin : {"", "GPIO14", "GPIO_INVALID"},
     D1Pin : {"", "GPIO15", "GPIO_INVALID"},
     Callback : BOOLEAN,
     Timeout : {-50, 0, 50, 150},
     MaxBits : {-1, 0, 1, 34}]

\* The hosts New runs on: the Raspberry Pi of the README; a host whose
\* host.Init fails; a host without GPIO (the test machine); a host that
\* knows only GPIO14; hosts where In fails on one of the two pins.
Hws ==
    {GoodHw,
     [GoodHw EXCEPT !.hostErr = "no driver"],
     [hostErr |-> "", registered |-> {}, inErr |-> <<>>],
     [hostErr |-> "", registered |-> {"GPIO14"}, inErr |-> [p \in {"GPIO14"} |-> ""]],
     [GoodHw EXCEPT !.inErr["GPIO14"] = "pin busy"],
     [GoodHw EXCEPT !.inErr["GPIO15"] = "pin busy"]}

\* Before the call of New(ctx, c) on the host h: no Reader, no goroutine; the
\* card reader on the lines will play s.  k is the direct call of decodeBits
\* about to be made, if any, and t the run of the testpin utility, if any.
Before(c, h, s, k, t) ==
    /\ config = c
    /\ hw = h
    /\ newErr = ""
    /\ running = 0
    /\ call = k
    /\ ret = NoRet
    /\ tickerC = FALSE
    /\ testpin = t
    /\ arg = ""
    /\ data = <<>>
    /\ timeout = 0
    /\ maxBits = 0
    /\ sinceLast = 0
    /\ mu = "free"
    /\ pulse = FALSE
    /\ cancelled = FALSE
    /\ wpc = [b \in Lines |-> "none"]
    /\ pdpc = "none"
    /\ timer = 0
    /\ frame = <<>>
    /\ recording = FALSE
    /\ appended = <<>>
    /\ taken = <<>>
    /\ calls = <<>>
    /\ script = s
    /\ burst = 1
    /\ idx = 0
    /\ gap = 0
    /\ order = <<>>

Unbuilt(c, h, s, k) == Before(c, h, s, k, NoRun)

\* Every Config on every host in front of a short burst, New about to be
\* called.
NewInit == \E c \in Configs, h \in Hws, s \in ShortScripts : Unbuilt(c, h, s, NoCall)

\* The call of New.  On an error it returns before the Reader literal; else
\* it stores timeout and maxBits and starts the three goroutines.  The zero
\* r.lastBitTime lies further back than any timeout.
NewCall ==
    /\ pdpc = "none"
    /\ newErr = ""
    /\ LET r == New(config, hw)
       IN  /\ newErr' = r.err
           /\ timeout' = r.timeout
           /\ maxBits' = r.maxBits
           /\ sinceLast' = r.timeout
           /\ gap' = r.timeout
           /\ wpc' = [b \in Lines |-> IF r.err = "" THEN "loop" ELSE "none"]
           /\ pdpc' = IF r.err = "" THEN "outer" ELSE "none"
    /\ UNCHANGED <<data, mu, pulse, cancelled, timer, frame, calls, script,
                   burst, idx, order, config, hw, running, direct,
                   aux, hist>>

\* No burst that short is a frame, so no callback is ever dispatched and
\* none returns.
NewNext == NewCall \/ ReaderNext

NewSpec == NewInit /\ [][NewNext]_vars

(* ----------------------- decodeBits called directly -------------------- *)

\* A package-internal caller (the tests) calls decodeBits; no Reader is
\* involved.
CallInit == \E k \in Calls : Unbuilt(ReadmeConfig, GoodHw, <<<<>>>>, k)

\* The call runs: it returns an error from one of its tests, or panics on an
\* index out of range in one of its loops, or returns the two strings.
DirectCall ==
    /\ call # NoCall
    /\ ~ret.done
    /\ ret' =
         IF InputError(call.bits, call.siteCodeStart, call.siteCodeLength,
                       call.tagStart, call.tagLength)
         THEN [done |-> TRUE, panic |-> FALSE, out |-> <<"", "", TRUE>>]
         ELSE IF \/ IndexPanics(call.bits, call.siteCodeStart, call.siteCodeLength)
                 \/ IndexPanics(call.bits, call.tagStart, call.tagLength)
         THEN [done |-> TRUE, panic |-> TRUE, out |-> <<"", "", FALSE>>]
         ELSE [done |-> TRUE, panic |-> FALSE,
               out |-> decodeBits(call.bits, call.siteCodeStart, call.siteCodeLength,
                                  call.tagStart, call.tagLength)]
    /\ UNCHANGED <<data, sinceLast, mu, pulse, cancelled, cfg, ctor, running,
                   wpc, pdpc, timer, frame, calls, env, call, aux, hist>>

CallNext == DirectCall

CallSpec == CallInit /\ [][CallNext]_vars

(* ------------------------- the testpin utility ------------------------ *)

\* A string of the command line is a sequence of tokens: a pin name, a comma
\* or a blank.  The default of the -pins flag in cmd/testpin/main.go.
DefaultPins ==
    <<"GPIO4", ",", "GPIO17", ",", "GPIO18", ",", "GPIO27", ",",
      "GPIO22", ",", "GPIO23", ",", "GPIO24", ",", "GPIO25">>

\* strings.Split(str, ","): the pieces between the commas, empty ones kept.
RECURSIVE Split(_)
Split(str) ==
    IF \A i \in 1..Len(str) : str[i] # "," THEN <<str>>
    ELSE LET k == CHOOSE i \in 1..Len(str) :
                      str[i] = "," /\ \A j \in 1..(i - 1) : str[j] # ","
         IN  <<SubSeq(str, 1, k - 1)>> \o Split(SubSeq(str, k + 1, Len(str)))

\* strings.TrimSpace: the blanks at both ends removed.
RECURSIVE TrimSpace(_)
TrimSpace(str) ==
    IF str # <<>> /\ Head(str) = " " THEN TrimSpace(Tail(str))
    ELSE IF str # <<>> /\ str[Len(str)] = " " THEN TrimSpace(SubSeq(str, 1, Len(str) - 1))
    ELSE str

\* main of cmd/testpin: the pinNames it hands to TestPinEdge.  given says
\* whether the command line has a -pins flag and flag is its value.
Main(given, flag) ==
    LET pinsFlag == IF given THEN flag ELSE DefaultPins
    IN  IF pinsFlag # <<>>
        THEN [i \in 1..Len(Split(pinsFlag)) |-> TrimSpace(Split(pinsFlag)[i])]
        ELSE <<>>

\* reservedPins of TestPinEdge.
ReservedPins ==
    {"GPIO0", "GPIO1", "GPIO2", "GPIO3", "GPIO7", "GPIO8", "GPIO9", "GPIO10",
     "GPIO11", "GPIO14", "GPIO15"}

\* strings.HasPrefix(name, "3.3V"), "5V" or "GND", for the names of the model.
PowerPin(name) == name \in {"3.3V", "5V", "GND"}

\* The function of the pin contains "I2C", "SPI", "UART" or "SDIO".  A pin
\* that does not implement pin.PinFunc has the function "unknown" here.
AltFunc(func) == func \in {"I2C", "SPI", "UART", "SDIO"}

\* The pins of gpioreg.All() that TestPinEdge monitors when it is given no
\* names.
FreePins(all) ==
    SelectSeq(all, LAMBDA q : /\ q.name \notin ReservedPins
                               /\ ~PowerPin(q.name)
                               /\ ~AltFunc(q.func))

\* gpioreg.ByName(name) is not nil: the name is that of one registered pin.
ByName(all, name) ==
    Len(name) = 1 /\ \E i \in 1..Len(all) : all[i].name = name[1]

\* func TestPinEdge(pinNames []string) up to the start of the monitors: the
\* text it dies with ("" when it does not), whether it took the free pins,
\* and the names of the pins it monitors.
TestPinEdge(pinNames, h) ==
    IF h.hostErr # ""
    THEN [fatal |-> "Failed to initialize periph host: " \o h.hostErr,
          free |-> FALSE, monitored |-> <<>>]
    ELSE IF Len(pinNames) = 0
    THEN LET pins == FreePins(h.all)
         IN  [fatal |-> IF pins = <<>> THEN "No free GPIO pins available" ELSE "",
              free |-> TRUE,
              monitored |-> [i \in 1..Len(pins) |-> pins[i].name]]
    ELSE LET valid == SelectSeq(pinNames, LAMBDA n : ByName(h.all, n))
         IN  [fatal |-> IF valid = <<>> THEN "No valid GPIO pins to monitor" ELSE "",
              free |-> FALSE,
              monitored |-> [i \in 1..Len(valid) |-> valid[i][1]]]

\* What gpioreg.All() returns on a Raspberry Pi, some of its pins: reserved
\* ones, one on an alternate function without being reserved, free ones.
PiPins ==
    <<[name |-> "GPIO2", func |-> "I2C"], [name |-> "GPIO4", func |-> "In"],
      [name |-> "GPIO5", func |-> "SPI"], [name |-> "GPIO14", func |-> "UART"],
      [name |-> "GPIO15", func |-> "In"], [name |-> "GPIO17", func |-> "In"],
      [name |-> "GPIO26", func |-> "unknown"], [name |-> "GND", func |-> "unknown"]>>

\* The hosts testpin runs on: the Raspberry Pi, a host with reserved pins
\* only, a host whose host.Init fails.
PinHosts ==
    {[hostErr |-> "", all |-> PiPins],
     [hostErr |-> "", all |-> SubSeq(PiPins, 1, 1)],
     [hostErr |-> "no driver", all |-> PiPins]}

\* The values of the -pins flag: every string of up to MaxFlagLen tokens.
Tokens == {"GPIO4", "GPIO14", "GPIO99", ",", " "}

Flags == UNION {[1..n -> Tokens] : n \in 0..MaxFlagLen}

\* testpin is about to run on the host h, with or without a -pins flag.
TestpinInit ==
    \E given \in BOOLEAN, flag \in Flags, h \in PinHosts :
        /\ ~given => flag = <<>>
        /\ Before(ReadmeConfig, GoodHw, <<<<>>>>, NoCall,
                  [pc |-> "main", given |-> given, flag |-> flag, host |-> h,
                   pinNames |-> <<>>, fatal |-> "", free |-> FALSE,
                   monitored |-> <<>>])

\* main parses the command line and calls TestPinEdge.
TpMain ==
    /\ testpin.pc = "main"
    /\ testpin' = [testpin EXCEPT !.pc = "called",
                                  !.pinNames = Main(testpin.given, testpin.flag)]
    /\ UNCHANGED <<data, sinceLast, mu, pulse, cancelled, cfg, ctor, direct, running,
                   wpc, pdpc, timer, frame, calls, env, tickerC, arg, hist>>

\* TestPinEdge chooses its pins and starts a monitor for each, or dies.
TpSelect ==
    /\ testpin.pc = "called"
    /\ LET r == TestPinEdge(testpin.pinNames, testpin.host)
       IN  testpin' = [testpin EXCEPT !.pc = IF r.fatal # "" THEN "fatal" ELSE "monitoring",
                                      !.fatal = r.fatal, !.free = r.free,
                                      !.monitored = r.monitored]
    /\ UNCHANGED <<data, sinceLast, mu, pulse, cancelled, cfg, ctor, direct, running,
                   wpc, pdpc, timer, frame, calls, env, tickerC, arg, hist>>

\* Ctrl+C: TestPinEdge closes stopCh and returns.
TpInterrupt ==
    /\ testpin.pc = "monitoring"
    /\ testpin' = [testpin EXCEPT !.pc = "shutdown"]
    /\ UNCHANGED <<data, sinceLast, mu, pulse, cancelled, cfg, ctor, direct, running,
                   wpc, pdpc, timer, frame, calls, env, tickerC, arg, hist>>

TestpinNext == TpMain \/ TpSelect \/ TpInterrupt

TestpinSpec == TestpinInit /\ [][TestpinNext]_vars

(* ------------------------- fair scheduling ---------------------------- *)

\* Every step of watchPin(pin, b).
Watcher(b) ==
    WLoop(b) \/ WEdge(b) \/ WNoEdge(b) \/ WLock(b) \/ WAppend(b) \/ WSignal(b) \/ WUnlock(b)

\* Every step of processData.
Processor ==
    \/ POuterDone \/ POuterPulse \/ PCond \/ PArm \/ PInnerPulse \/ PInnerDone
    \/ PInnerTimer \/ PLock \/ PSnap \/ PDecode

\* The Reader as New returns it in front of a short burst.
FairInit == \E s \in ShortScripts : Started(s)

\* The Go scheduler runs every runnable goroutine, and WaitForEdge returns
\* within its one-second bound.  No burst that short is a frame, so no
\* callback is ever dispatched and none returns.
FairSpec ==
    /\ FairInit
    /\ [][ReaderNext]_vars
    /\ \A b \in Lines : WF_vars(Watcher(b))
    /\ WF_vars(Processor)

(* ------------------- fair scheduling, time passing -------------------- *)

\* One short burst; two short bursts, a silence between them.
LiveScripts ==
    ShortScripts \cup {<<s, t>> : s \in Bursts(1), t \in Bursts(MaxLiveLen)}

\* The Reader as New returns it in front of a short script.
LiveInit == \E s \in LiveScripts : Started(s)

\* The Go scheduler runs every runnable goroutine, WaitForEdge returns
\* within its one-second bound, and time passes.
LiveSpec ==
    /\ LiveInit
    /\ [][ReaderNext]_vars
    /\ \A b \in Lines : WF_vars(Watcher(b))
    /\ WF_vars(Processor)
    /\ WF_vars(Tick)

(* ---------------------- the history of the buffer --------------------- *)

\* Two short bursts with a silence between them.
BufferScripts == {<<s, t>> : s \in Bursts(1), t \in Bursts(MaxLiveLen)}

\* The Reader as New returns it in front of one or two short bursts; every
\* append and every snapshot is recorded.
BufferInit == \E s \in ShortScripts \cup BufferScripts : StartedWith(s, TRUE)

BufferSpec == BufferInit /\ [][ReaderNext]_vars

(* ------------------- a card longer than maxBits ---------------------- *)

\* The Reader of the README, maxBits 26, in front of the 37-bit card.  Its
\* last 26 and its last 34 bits are valid frames too.
CardInit == Started(<<Card37>>)

CardSpec == CardInit /\ [][Next]_vars

(* ------------------ the ticker-driven reader (wiegand.go) -------------- *)

\* The Reader of src/wiegand.go has the fields of the pulse-driven one but
\* lastBitTime and pulse.  Its watchPin is the same loop without the stamp
\* and the send, so its steps up to the lock and its unlock are the actions
\* WLoop, WEdge, WNoEdge, WLock and WUnlock; its New, Close and the return of
\* a callback are the same code.  processData is driven by a time.Ticker of
\* period r.timeout.

\* func bitsToDecimal(bits []byte) string: the same loop as in decodeBits,
\* over the whole slice, and the Sprintf of the uint64.
bitsToDecimal(bits) ==
    IF Len(bits) <= 30 THEN Sprintf(Accumulate(bits, 0, Len(bits), 0))
    ELSE SprintfWord(AccumulateWord(bits, 0, Len(bits), <<>>))

\* The Configs of the ticker-driven Readers: the README's, a period of two
\* ticks of the clock, with a small MaxBits and with the default.
SlowTicker == {[ReadmeConfig EXCEPT !.MaxBits = n] : n \in {2, 26}}

\* New of src/wiegand.go is about to be called, in front of a short burst.
TickerInit == \E c \in SlowTicker, s \in ShortScripts : Unbuilt(c, GoodHw, s, NoCall)

\* The call of New of src/wiegand.go: the same tests and defaults, then the
\* three go statements.
TNewCall ==
    /\ pdpc = "none"
    /\ newErr = ""
    /\ LET r == New(config, hw)
       IN  /\ newErr' = r.err
           /\ timeout' = r.timeout
           /\ maxBits' = r.maxBits
           /\ gap' = r.timeout
           /\ wpc' = [b \in Lines |-> IF r.err = "" THEN "loop" ELSE "none"]
           /\ pdpc' = IF r.err = "" THEN "start" ELSE "none"
    /\ UNCHANGED <<data, sinceLast, mu, pulse, cancelled, timer, frame, calls, script,
                   burst, idx, order, config, hw, running, direct,
                   aux, hist>>

\* r.data = append(r.data, bit), under the lock; nothing else before Unlock.
TAppend(b) ==
    /\ wpc[b] = "append"
    /\ data' = Append(data, b)
    /\ wpc' = [wpc EXCEPT ![b] = "unlock"]
    /\ UNCHANGED <<sinceLast, mu, pulse, cancelled, cfg, ctor, direct, aux, hist, running,
                   pdpc, timer, frame, calls, env>>

\* ticker := time.NewTicker(r.timeout): the first tick is due one period
\* from now.
TStart ==
    /\ pdpc = "start"
    /\ timer' = timeout
    /\ pdpc' = "outer"
    /\ UNCHANGED <<data, sinceLast, mu, pulse, cancelled, cfg, ctor, direct, aux, hist,
                   running, wpc, frame, calls, env>>

\* select, case <-ticker.C.
TReceive ==
    /\ pdpc = "outer"
    /\ tickerC
    /\ tickerC' = FALSE
    /\ pdpc' = "lock"
    /\ UNCHANGED <<data, sinceLast, mu, pulse, cancelled, cfg, ctor, direct, testpin, arg, hist,
                   running, wpc, timer, frame, calls, env>>

\* A tick whose test reads `len(r.data) < r.maxBits`.
TProcessStrict ==
    /\ pdpc = "snap"
    /\ LET dispatch == Len(data) > 0 /\ Len(data) < maxBits
       IN  /\ arg' = IF dispatch THEN bitsToDecimal(data) ELSE arg
           /\ pdpc' = IF dispatch THEN "go" ELSE "outer"
    /\ data' = <<>>
    /\ mu' = "free"
    /\ UNCHANGED <<sinceLast, pulse, cancelled, cfg, ctor, direct, tickerC, testpin, hist,
                   running, wpc, timer, frame, calls, env>>

\* The body of the tick case from after r.mu.Lock() to r.mu.Unlock(): with 1
\* to maxBits bits in the buffer, `data := bitsToDecimal(r.data)`, reset the
\* buffer and unlock, the go statement to come; else reset the buffer and
\* unlock.
TProcess ==
    /\ pdpc = "snap"
    /\ LET dispatch == Len(data) > 0 /\ Len(data) <= maxBits
       IN  /\ arg' = IF dispatch THEN bitsToDecimal(data) ELSE arg
           /\ pdpc' = IF dispatch THEN "go" ELSE "outer"
    /\ data' = <<>>
    /\ mu' = "free"
    /\ UNCHANGED <<sinceLast, pulse, cancelled, cfg, ctor, direct, tickerC, testpin, hist,
                   running, wpc, timer, frame, calls, env>>

\* A processData that calls the callback itself, `r.callback(data)` without
\* the go: it gets no further while an earlier callback runs.
TGoWaits ==
    /\ pdpc = "go"
    /\ running = 0
    /\ calls' = Append(calls, arg)
    /\ running' = running + 1
    /\ pdpc' = "outer"
    /\ UNCHANGED <<data, sinceLast, mu, pulse, cancelled, cfg, ctor, direct, aux, hist,
                   wpc, timer, frame, env>>

\* `go r.callback(data)`, after the Unlock, and back to the select.
TGo ==
    /\ pdpc = "go"
    /\ calls' = Append(calls, arg)
    /\ running' = running + 1
    /\ pdpc' = "outer"
    /\ UNCHANGED <<data, sinceLast, mu, pulse, cancelled, cfg, ctor, direct, aux, hist,
                   wpc, timer, frame, env>>

\* The ticker exists from time.NewTicker on and is stopped by the deferred
\* ticker.Stop() when processData returns.
TickerRuns == pdpc \notin {"none", "start", "done"}

\* TickMs milliseconds pass, the pulses coming as in Tick.  While the ticker
\* runs and its period has run out it puts a tick into its channel, which
\* holds one and drops the tick when it is full; the next tick is due one
\* period later, to the precision of this clock.  A ticker not yet made or
\* stopped sends nothing.
TickerTick ==
    /\ Awaited => gap + TickMs < timeout
    /\ gap' = Min(gap + TickMs, timeout)
    /\ timer' = IF ~TickerRuns THEN timer
              ELSE IF timer - TickMs <= 0 THEN timeout ELSE timer - TickMs
    /\ tickerC' = (tickerC \/ (TickerRuns /\ timer - TickMs <= 0))
    /\ UNCHANGED <<data, sinceLast, mu, pulse, cancelled, cfg, ctor, direct, testpin, arg, hist,
                   running, wpc, pdpc, frame, calls, script, burst, idx, order>>

TickerNext ==
    \/ TNewCall
    \/ \E b \in Lines : WLoop(b)
    \/ \E b \in Lines : WEdge(b)
    \/ \E b \in Lines : WNoEdge(b)
    \/ \E b \in Lines : WLock(b)
    \/ \E b \in Lines : TAppend(b)
    \/ \E b \in Lines : WUnlock(b)
    \/ TStart
    \/ POuterDone
    \/ TReceive
    \/ PLock
    \/ TProcess
    \/ TGo
    \/ CallbackReturn
    \/ Close
    \/ CancelParent
    \/ TickerTick

TickerSpec == TickerInit /\ [][TickerNext]_vars

\* New of src/wiegand.go is about to be called, in front of two bursts, a
\* silence of the timeout between them: a single pulse, then up to
\* MaxLiveLen pulses.  Callbacks return or do not.
DispatchInit == \E c \in SlowTicker, s \in BufferScripts : Unbuilt(c, GoodHw, s, NoCall)

DispatchSpec == DispatchInit /\ [][TickerNext]_vars

(* ------------------- the body of a tick on its own --------------------- *)

\* The Configs of the Readers whose tick is looked at: MaxBits small, the
\* default, and beyond the width of the accumulator.
TickConfigs == {[ReadmeConfig EXCEPT !.MaxBits = n] : n \in {2, 26, 2 * WordBits}}

\* The buffers a tick finds: every burst of up to MaxFairLen + 1 bits, the
\* all-zero ones and the test vectors of DecodeSpec, and the bursts about as
\* long as the accumulator is wide.
TickBuffers == {<<>>} \cup Bursts(MaxFairLen + 1) \cup Bases \cup WideBits

\* processData of the ticker-driven Reader built from c has received a tick
\* and taken the lock; the monitors have appended the burst d before.
Ticking(d, c) ==
    /\ config = c
    /\ hw = GoodHw
    /\ newErr = ""
    /\ running = 0
    /\ call = NoCall
    /\ ret = NoRet
    /\ tickerC = FALSE
    /\ testpin = NoRun
    /\ arg = ""
    /\ data = d
    /\ timeout = New(c, GoodHw).timeout
    /\ maxBits = New(c, GoodHw).maxBits
    /\ sinceLast = 0
    /\ mu = "pd"
    /\ pulse = FALSE
    /\ cancelled = FALSE
    /\ wpc = [b \in Lines |-> "loop"]
    /\ pdpc = "snap"
    /\ timer = timeout
    /\ frame = <<>>
    /\ recording = FALSE
    /\ appended = <<>>
    /\ taken = <<>>
    /\ calls = <<>>
    /\ script = <<d>>
    /\ burst = 1
    /\ idx = Len(d)
    /\ gap = 0
    /\ order = <<>>

TickInit == \E d \in TickBuffers, c \in TickConfigs : Ticking(d, c)

TickNext == TProcess \/ TGo

TickSpec == TickInit /\ [][TickNext]_vars

(* ------------------------------ claims -------------------------------- *)

\* The number of 1-bits among bits[lo..hi) (0-indexed, as the spec's table).
OnesIn(bits, lo, hi) == Cardinality({i \in (lo + 1)..hi : bits[i] = 1})

\* The big-endian unsigned value of bits[lo..hi), first bit most significant.
RECURSIVE BigEndian(_, _, _)
BigEndian(bits, lo, hi) ==
    IF hi <= lo THEN 0 ELSE 2 * BigEndian(bits, lo, hi - 1) + bits[hi]

\* The spec's layout table: where the trailing parity range starts, and where
\* the tag range handed to decodeBits starts (it is 16 bits wide).
LeadLen(n) == CASE n = 26 -> 13 [] n = 34 -> 17 [] n = 37 -> 19 [] OTHER -> 0

TagStart(n) == CASE n = 26 -> 9 [] n = 34 -> 18 [] n = 37 -> 20 [] OTHER -> 0

\* A frame the spec accepts: a supported length, an even number of 1-bits in
\* the leading range and an odd number in the trailing range.
SpecValid(f) ==
    /\ Len(f) \in {26, 34, 37}
    /\ OnesIn(f, 0, LeadLen(Len(f))) % 2 = 0
    /\ OnesIn(f, LeadLen(Len(f)), Len(f)) % 2 = 1

\* processData has decoded the snapshot it was holding.
Decoded == pdpc = "outer"

\* The snapshot the decode step of DecodeSpec is given: the burst the card
\* reader sent.
Given == script[1]

\* C1 (original claim): for every frame of length 26, 34 or 37 that passes
\* both parity checks, the argument of the callback is the decimal string of
\* the big-endian value of the tag range bits[9..25), bits[18..34) or
\* bits[20..36), never the value of the site-code range.
C1_CallbackGetsTag ==
    (Decoded /\ calls # <<>>) =>
        calls[1] = Sprintf(BigEndian(Given, TagStart(Len(Given)), TagStart(Len(Given)) + 16))

\* C2 (original claim): once the 26 bits of the example card have been
\* appended in order and snapshotted after the silence, exactly one callback
\* has been dispatched for it, with the argument "21845".
C2_OneCallback21845 == (Decoded /\ Given = E2EBits) => calls = <<"21845">>

\* C2 (amended): once the 26 bits of the example card have been appended in
\* order and snapshotted after the silence, no callback is dispatched for
\* them: the snapshot fails the odd-parity check, its trailing range holding
\* six 1-bits.
C2_NoCallback ==
    (Given = E2EBits) =>
        /\ calls = <<>> /\ running = 0
        /\ ~SpecValid(Given) /\ OnesIn(Given, 13, 26) = 6

\* C2 witness: the snapshot of the example card was decoded and nothing
\* dispatched.
C2_Witness == Decoded /\ Given = E2EBits /\ frame = <<>> /\ calls = <<>>

\* C3: a snapshot dispatches exactly one callback if and only if its length
\* is 26, 34 or 37, its leading range has an even and its trailing range an
\* odd number of 1-bits; every other snapshot dispatches none; decodeBits
\* returns no error.
C3_DispatchIffValid ==
    /\ pdpc = "decode" => (calls = <<>> /\ ~Decode(frame).err)
    /\ Decoded => Len(calls) = (IF SpecValid(Given) THEN 1 ELSE 0)

\* C3 witness: a 34-bit snapshot was decoded and its callback dispatched.
C3_Witness == Decoded /\ Len(Given) = 34 /\ Len(calls) = 1

\* Both parity checks of processData on f, as the switch calls them.
ParityPasses(f) ==
    /\ checkParity(f, 0, LeadLen(Len(f)), TRUE)
    /\ checkParity(f, LeadLen(Len(f)), Len(f) - LeadLen(Len(f)), FALSE)

\* C4: for a frame of a supported length that passed both parity checks and
\* every bit position i, the frame with only bit i flipped fails a parity
\* check and produces no callback.
C4_FlipRejected ==
    (Decoded /\ calls # <<>>) =>
        \A i \in 1..Len(Given) :
            /\ ~ParityPasses(Flip(Given, i))
            /\ ~Decode(Flip(Given, i)).dispatch

\* C4 witness: a 37-bit frame passed both parity checks and was dispatched.
C4_Witness == Decoded /\ Len(Given) = 37 /\ calls # <<>> /\ ParityPasses(Given)

\* C5 (original claim): whenever processData snapshots and clears a buffer
\* that holds bits, at least the timeout has passed since the last bit was
\* appended.
C5_SnapshotAfterSilence ==
    [][(pdpc = "snap" /\ pdpc' = "decode" /\ data # <<>>) => sinceLast >= timeout]_vars

\* C6 (original claim): the buffer never holds more than maxBits bits: no
\* append takes it beyond maxBits.
C6_BufferWithinMax == [][Len(data') > Len(data) => Len(data') <= maxBits]_vars

\* C7 (original claim): a snapshot of more than maxBits bits is discarded
\* without a callback.
C7_OverflowDiscarded ==
    [][(pdpc = "decode" /\ Len(frame) > maxBits) => calls' = calls]_vars

\* C8 (original claim): once the context is cancelled, processData
\* dispatches no further callback.
C8_NoDispatchAfterClose == [][cancelled => calls' = calls]_vars

\* All three goroutines have returned.
AllDone == pdpc = "done" /\ \A b \in Lines : wpc[b] = "done"

\* C9: once the context is cancelled, watchPin for D0, watchPin for D1 and
\* processData all eventually return.
C9_TasksTerminate == cancelled ~> AllDone

\* C9 witness: the context is cancelled and the three goroutines have
\* returned, bits having been appended before.
C9_Witness == cancelled /\ AllDone /\ idx > 0

\* C10 (original claim): once the context is cancelled, no line monitor
\* appends a further bit.
C10_NoAppendAfterCancel == [][cancelled => Len(data') <= Len(data)]_vars

\* The pulses the card reader has sent and a monitor has observed, in the
\* order of the observations.
RECURSIVE Played(_)
Played(n) == IF n <= 0 THEN <<>> ELSE Played(n - 1) \o script[n]

Observed == Played(burst - 1) \o SubSeq(script[burst], 1, idx)

\* C11 (original claim): the bits in the buffer stand in the order in which
\* their pulses were observed: the buffer is a run of consecutive observed
\* pulses, whatever the order in which the two monitors took the lock.
C11_AppendedInObservedOrder ==
    \E k \in 0..(Len(Observed) - Len(data)) :
        data = SubSeq(Observed, k + 1, k + Len(data))

\* The goroutines that stand between r.mu.Lock() and r.mu.Unlock().
InCritical ==
    {Holder(b) : b \in {x \in Lines : wpc[x] \in {"append", "signal", "unlock"}}}
        \cup (IF pdpc = "snap" THEN {"pd"} ELSE {})

\* A step that changes the buffer is the append of a monitor holding r.mu or
\* the snapshot-and-clear of processData holding it.
BufferUnderMu ==
    data' # data =>
        \/ \E b \in Lines : /\ wpc[b] = "append"
                             /\ mu = Holder(b)
                             /\ InCritical = {Holder(b)}
                             /\ data' = Append(data, b)
        \/ /\ pdpc = "snap"
           /\ mu = "pd"
           /\ InCritical = {"pd"}
           /\ data' = <<>>

\* A step that sets r.lastBitTime (the time since then falls) is made by a
\* monitor holding r.mu.
StampUnderMu ==
    sinceLast' < sinceLast =>
        \E b \in Lines : /\ wpc[b] = "append"
                          /\ mu = Holder(b)
                          /\ InCritical = {Holder(b)}

\* C12: at most one of the three goroutines is between Lock and Unlock, and
\* it is the one r.mu says; the buffer changes only by the append of the
\* monitor holding r.mu or by the snapshot-and-clear of processData holding
\* it, and lastBitTime is written only by a monitor holding r.mu.
C12_MutexProtects ==
    /\ [](Cardinality(InCritical) <= 1 /\ InCritical = (IF mu = "free" THEN {} ELSE {mu}))
    /\ [][BufferUnderMu /\ StampUnderMu]_vars

\* C12 witness: processData holds the mutex over a buffer with bits in it
\* while a monitor that has observed a pulse waits for the mutex.
C12_Witness ==
    /\ mu = "pd" /\ pdpc = "snap" /\ data # <<>>
    /\ \E b \in Lines : wpc[b] = "lock"

\* New has returned, with an error or with a Reader.
Returned == newErr # "" \/ pdpc # "none"

\* None of the three goroutines has been started.
NoTasks == pdpc = "none" /\ \A b \in Lines : wpc[b] = "none"

\* The cases of the claim: a pin name empty, no callback, a pin name that
\* does not resolve, a pin that cannot be configured.
BadConfig ==
    \/ config.D0Pin = "" \/ config.D1Pin = ""
    \/ ~config.Callback
    \/ config.D0Pin \notin hw.registered \/ config.D1Pin \notin hw.registered
    \/ hw.inErr[config.D0Pin] # "" \/ hw.inErr[config.D1Pin] # ""

\* A callback and two non-empty pin names that do not resolve.
TwoUnresolved ==
    /\ config.Callback
    /\ config.D0Pin # "" /\ config.D0Pin \notin hw.registered
    /\ config.D1Pin # "" /\ config.D1Pin \notin hw.registered

InvalidPinsText ==
    "invalid GPIO pins: D0=" \o config.D0Pin \o ", D1=" \o config.D1Pin

\* C13 (original claim): in each of those cases New returns an error and no
\* goroutine is ever started; with a callback and two non-empty unresolvable
\* pin names the text of the error is "invalid GPIO pins: D0=.., D1=..".
C13_NewFailsFast ==
    Returned =>
        /\ BadConfig => (newErr # "" /\ NoTasks)
        /\ TwoUnresolved => newErr = InvalidPinsText

\* C13 (amended): the same, the text being that one when host.Init has
\* succeeded; when host.Init fails New returns its error, wrapped, whatever
\* the Config, and starts nothing.
C13_NewFailsFastHostUp ==
    Returned =>
        /\ BadConfig => (newErr # "" /\ NoTasks)
        /\ hw.hostErr # "" =>
               (newErr = "failed to initialize periph host: " \o hw.hostErr /\ NoTasks)
        /\ (TwoUnresolved /\ hw.hostErr = "") => newErr = InvalidPinsText

\* C13 witness: the call of TestNewReader has returned its error.
C13_Witness ==
    /\ newErr = "invalid GPIO pins: D0=GPIO_INVALID, D1=GPIO_INVALID"
    /\ config.Callback /\ config.Timeout = 50
    /\ NoTasks

\* C17: the Reader New returns has the timeout 100 ms when Config.Timeout is
\* zero or negative and Config.Timeout otherwise, maxBits 26 when
\* Config.MaxBits is zero or negative and Config.MaxBits otherwise, and no
\* step of the Reader changes either.
C17_DefaultsApplied ==
    /\ [](pdpc # "none" =>
            /\ timeout = (IF config.Timeout <= 0 THEN 100 ELSE config.Timeout)
            /\ maxBits = (IF config.MaxBits <= 0 THEN 26 ELSE config.MaxBits))
    /\ [][pdpc # "none" => (timeout' = timeout /\ maxBits' = maxBits)]_vars

\* C17 witness: a Reader built from a negative Timeout and a zero MaxBits
\* has appended a bit and snapshotted it, with 100 ms and 26.
C17_Witness ==
    /\ config.Timeout < 0 /\ config.MaxBits = 0
    /\ timeout = 100 /\ maxBits = 26
    /\ frame # <<>> /\ pdpc = "decode"

\* The card reader has sent its whole script and the Reader has dealt with
\* all of it: every pulse appended, the buffer snapshotted and decoded, no
\* pulse token left, nothing cancelled.
Settled ==
    /\ burst = Len(script) /\ idx = Len(script[burst])
    /\ \A b \in Lines : wpc[b] \in {"loop", "wait"}
    /\ data = <<>> /\ ~pulse /\ pdpc = "outer"
    /\ ~cancelled

\* C14 (original claim): of two parity-valid frames, the second coming at
\* least the timeout after the first, each gets its own callback, the buffer
\* being empty at some point between the last bit of the first and the first
\* bit of the second: when the first bit of the second frame is appended,
\* every bit of the first having been appended before, the buffer is empty.
C14_EmptyBetweenFrames ==
    [][\A b \in Lines :
          (/\ script[1] = CardA /\ burst = 2 /\ idx = 1
           /\ wpc[b] = "append" /\ wpc'[b] = "signal"
           /\ \A c \in Lines \ {b} : wpc[c] \in {"loop", "wait", "done"})
          => data = <<>>]_vars

C16_RejectionDoesNotStop ==
    /\ [](~cancelled => (pdpc # "done" /\ \A b \in Lines : wpc[b] # "done"))
    /\ [](pdpc = "decode" => ENABLED PDecode)
    /\ [][(pdpc = "snap" /\ pdpc' # "snap") => data' = <<>>]_vars
    /\ [][(pdpc = "decode" /\ pdpc' # "decode") =>
            /\ pdpc' = "outer"
            /\ calls' = IF SpecValid(frame) THEN Append(calls, Decode(frame).arg) ELSE calls]_vars

\* C16 witness: the first eleven bits of the card were snapshotted and
\* rejected, no callback dispatched; processData went on, has snapshotted the
\* 26 bits that came after them, a valid frame, and stands at its decode
\* step.
C16_Witness ==
    /\ script = <<Card37>> /\ idx = 37 /\ ~cancelled
    /\ pdpc = "decode" /\ frame = SubSeq(Card37, 12, 37) /\ SpecValid(frame)
    /\ calls = <<>> /\ data = <<>>

\* The direct call has returned (it has not panicked).
CallReturned == ret.done /\ ~ret.panic

\* C18: decodeBits returns an error and two empty strings whenever the
\* site-code range or the tag range ends beyond the slice or some element of
\* the slice, inside the ranges or not, is neither 0 nor 1.
C18_BadInputErrs ==
    (/\ ret.done
     /\ \/ call.siteCodeStart + call.siteCodeLength > Len(call.bits)
        \/ call.tagStart + call.tagLength > Len(call.bits)
        \/ \E i \in 1..Len(call.bits) : call.bits[i] \notin {0, 1})
    => (~ret.panic /\ ret.out = <<"", "", TRUE>>)

\* C18 witness: a call with both ranges inside the slice and a 2 outside
\* both of them has returned its error.
C18_Witness ==
    /\ CallReturned /\ ret.out = <<"", "", TRUE>>
    /\ call.bits = <<0, 2>>
    /\ call.siteCodeStart = 0 /\ call.siteCodeLength = 1
    /\ call.tagStart = 0 /\ call.tagLength = 1

\* The bits of the range [start, start+length) of the call's slice.
Range(start, length) == SubSeq(call.bits, start + 1, start + length)

\* The call has two non-negative ranges inside a slice of 0s and 1s.
GoodCall ==
    /\ \A i \in 1..Len(call.bits) : call.bits[i] \in {0, 1}
    /\ call.siteCodeStart >= 0 /\ call.siteCodeLength >= 0
    /\ call.tagStart >= 0 /\ call.tagLength >= 0
    /\ call.siteCodeStart + call.siteCodeLength <= Len(call.bits)
    /\ call.tagStart + call.tagLength <= Len(call.bits)

\* C19 (original claim): for a slice of 0s and 1s and two non-negative
\* ranges inside it decodeBits succeeds, its first result the decimal string
\* of the big-endian value of the bits of the site-code range and its second
\* that of the bits of the tag range, however long the ranges; an empty range
\* gives "0".
C19_BigEndianDecimal ==
    (ret.done /\ GoodCall) =>
        /\ ~ret.panic
        /\ ret.out = <<SprintfWord(Range(call.siteCodeStart, call.siteCodeLength)),
                       SprintfWord(Range(call.tagStart, call.tagLength)), FALSE>>

\* C19 (amended): the same for ranges of up to 64 bits; of a longer range
\* the result is the value of its last 64 bits, the big-endian value modulo
\* 2^64.
C19_BigEndianDecimalMod ==
    (ret.done /\ GoodCall) =>
        /\ ~ret.panic
        /\ ret.out = <<SprintfWord(Word(Range(call.siteCodeStart, call.siteCodeLength))),
                       SprintfWord(Word(Range(call.tagStart, call.tagLength))), FALSE>>
        /\ call.siteCodeLength = 0 => ret.out[1] = "0"
        /\ call.tagLength = 0 => ret.out[2] = "0"

\* C19 witness: the call of the test "37-bit Wiegand with larger site code"
\* has returned the values of its 35-bit and its 19-bit range.
C19_Witness ==
    /\ CallReturned /\ call.bits = Test37
    /\ call.siteCodeLength = 35 /\ call.tagLength = 19
    /\ ret.out = <<"15517299507", "236775", FALSE>>

\* C20 (original claim): decodeBits called on an empty slice returns an
\* error, also when both ranges have start 0 and length 0.
C20_EmptySliceErrs ==
    (ret.done /\ call.bits = <<>>) => (~ret.panic /\ ret.out[3] = TRUE)

\* C21 (original claim): testpin run without a -pins flag hands TestPinEdge
\* an empty list of names, and TestPinEdge then monitors every registered
\* pin that is not reserved and not on an alternate function instead of a
\* fixed list of names.
C21_NoFlagAllFreePins ==
    (testpin.pc \notin {"none", "main"} /\ ~testpin.given) =>
        /\ testpin.pinNames = <<>>
        /\ testpin.pc \in {"monitoring", "shutdown"} =>
               /\ testpin.free
               /\ testpin.monitored =
                      [i \in 1..Len(FreePins(testpin.host.all)) |->
                          FreePins(testpin.host.all)[i].name]

\* processData evaluates time.Since(r.lastBitTime): the condition of its
\* wait loop, or the argument of time.After.
ReadsLastBitTime == pdpc \in {"cond", "arm"}

\* C22 (original claim): every access to lastBitTime is made with r.mu held:
\* processData holds the mutex whenever it reads lastBitTime, so it never
\* reads it while a monitor stands at its write of it.
C22_LastBitTimeReadUnderMu ==
    ReadsLastBitTime => (mu = "pd" /\ \A b \in Lines : wpc[b] # "append")

\* The card reader has sent its last pulse and a monitor has observed it.
ScriptDone == burst = Len(script) /\ idx = Len(script[burst])

\* Every observed pulse has been appended and the buffer is empty: every bit
\* appended so far has been taken by a snapshot-and-clear.
Drained ==
    /\ data = <<>>
    /\ \A b \in Lines : wpc[b] \notin {"lock", "append", "signal", "unlock"}

\* C23: no wake-up is lost: once the bits have stopped arriving, every bit
\* appended to the buffer is eventually removed from it by a snapshot-and-clear
\* of processData (unless the Reader is cancelled first), however the
\* non-blocking sends on the pulse channel and the receives of processData
\* interleave.
C23_NoLostWakeup == ScriptDone ~> (Drained \/ cancelled)

\* C23 witness: a whole burst of two bits or more was removed by one
\* snapshot, and the channel still holds the token of an append that came
\* after processData had received the token of an earlier one.
C23_Witness ==
    /\ ScriptDone /\ ~cancelled /\ Drained
    /\ Len(script[burst]) >= 2 /\ frame = script[burst]
    /\ pdpc = "decode" /\ pulse

\* The step the holder of r.mu takes next.
CriticalStep ==
    \/ \E b \in Lines : mu = Holder(b) /\ (WAppend(b) \/ WSignal(b) \/ WUnlock(b))
    \/ mu = "pd" /\ PSnap

\* The holder of r.mu waits for nobody: its next step is enabled, the send on
\* a full channel included.
HolderNeverWaits == mu # "free" => ENABLED CriticalStep

\* Whoever waits for r.mu finds it free or held by a task that can step; a
\* pending pulse token or timer expiry can be received by processData
\* standing at a select; every task elsewhere can step.
PendingCanStep ==
    /\ \A b \in Lines : wpc[b] = "lock" =>
           (ENABLED CriticalStep \/ ENABLED (WLock(0) \/ WLock(1) \/ PLock))
    /\ pdpc = "lock" => (ENABLED CriticalStep \/ ENABLED PLock)
    /\ (pdpc = "outer" /\ pulse) => ENABLED POuterPulse
    /\ (pdpc = "inner" /\ pulse) => ENABLED PInnerPulse
    /\ (pdpc = "inner" /\ timer = 0) => ENABLED PInnerTimer
    /\ pdpc \in {"cond", "arm", "snap", "decode"} => ENABLED Processor
    /\ \A b \in Lines : wpc[b] \in {"loop", "wait", "append", "signal", "unlock"} =>
           ENABLED Watcher(b)

\* C28: the Reader is free of deadlock: the task holding r.mu never waits on
\* another task, while the context is not cancelled a task can take a step
\* whenever a pulse token or a timer expiry is pending or the mutex is waited
\* for, and every acquired lock is released.
C28_DeadlockFree ==
    /\ [](~cancelled => (HolderNeverWaits /\ PendingCanStep))
    /\ (mu # "free") ~> (mu = "free")

\* C28 witness: a monitor holds r.mu and stands at its send on the full
\* channel while processData waits for r.mu.
C28_Witness ==
    /\ ~cancelled /\ pdpc = "lock" /\ pulse
    /\ \E b \in Lines : mu = Holder(b) /\ wpc[b] = "signal"

\* The values of bits are 0 and 1 only.
AllBits(bits) == \A i \in 1..Len(bits) : bits[i] \in {0, 1}

\* A range of decodeBits lies within a slice of n elements.
Within(start, length, n) == start >= 0 /\ length >= 0 /\ start + length <= n

\* C24: contract violations do not occur at run time: the buffer and every
\* snapshot hold the values 0 and 1 only; for a snapshot of 26, 34 or 37 bits
\* the site-code range and the tag range processData passes lie within the
\* snapshot; and the call of decodeBits in processData returns no error
\* for any snapshot the line monitors assemble.
C24_NoContractViolation ==
    /\ AllBits(data) /\ AllBits(frame)
    /\ (pdpc = "decode" /\ Len(frame) \in {26, 34, 37}) =>
           LET a == DecodeArgs(Len(frame))
           IN  /\ Within(a.siteCodeStart, a.siteCodeLength, Len(frame))
               /\ Within(a.tagStart, a.tagLength, Len(frame))
               /\ ~decodeBits(frame, a.siteCodeStart, a.siteCodeLength,
                              a.tagStart, a.tagLength)[3]
    /\ pdpc = "decode" => ~Decode(frame).err

\* C24 witness: the monitors have assembled a snapshot of the 37 bits of the
\* card, which processData is about to decode, and decodeBits returns no
\* error for it.
C24_Witness ==
    /\ frame = Card37 /\ AllBits(frame) /\ pdpc = "decode"
    /\ calls = <<>> /\ ~Decode(frame).err /\ Decode(frame).dispatch

\* C27: bits are conserved: in every state the snapshots taken so far, one
\* after the other, the empty and the rejected ones included, followed by the
\* buffer are the bits appended so far in the order of the appends: no bit is
\* lost, doubled or in two snapshots.
C27_BitsConserved == recording => taken \o data = appended

\* C27 witness: two bursts were appended and taken by two snapshots, the
\* buffer empty after each.
C27_Witness ==
    /\ recording /\ Len(script) = 2 /\ ScriptDone /\ Drained
    /\ frame = script[2] /\ taken = script[1] \o script[2]
    /\ appended = taken /\ pdpc = "decode"

\* The two strings decodeBits returns for the snapshot f of a supported
\* length with the ranges processData passes.
Fields(f) ==
    LET a   == DecodeArgs(Len(f))
        res == decodeBits(f, a.siteCodeStart, a.siteCodeLength, a.tagStart, a.tagLength)
    IN  <<res[1], res[2]>>

\* C29 (original claim): for a decoded snapshot of L = 26, 34 or 37 bits the
\* site-code range and the tag range processData passes to decodeBits are
\* disjoint and lie within bits[1..L-1): neither field includes the leading
\* parity bit 0 or the trailing parity bit L-1, so neither bit changes what
\* decodeBits returns.
C29_FieldsBetweenParityBits ==
    (Decoded /\ Len(Given) \in {26, 34, 37}) =>
        LET L == Len(Given)
            a == DecodeArgs(L)
        IN  /\ \/ a.siteCodeStart + a.siteCodeLength <= a.tagStart
               \/ a.tagStart + a.tagLength <= a.siteCodeStart
            /\ a.siteCodeStart >= 1 /\ a.siteCodeStart + a.siteCodeLength <= L - 1
            /\ a.tagStart >= 1 /\ a.tagStart + a.tagLength <= L - 1
            /\ Fields(Flip(Given, 1)) = Fields(Given)
            /\ Fields(Flip(Given, L)) = Fields(Given)

\* The decimal string of the big-endian unsigned value of bits, the value
\* taken modulo 2^64.
DecimalMod(bits) ==
    IF Len(bits) <= 30 THEN Sprintf(BigEndian(bits, 0, Len(bits)))
    ELSE SprintfWord(Word(bits))

\* The ticker-driven processData runs the body of its tick case, from after
\* the Lock to the Unlock.
TickBody == pdpc = "snap" /\ pdpc' # "snap"

\* It runs its go statement.
TickGo == pdpc = "go" /\ pdpc' = "outer"

\* C25 (original claim): in the ticker-driven reader the body of every tick
\* leaves the buffer empty and dispatches exactly one callback if and only if
\* the buffer holds L bits with 1 <= L <= maxBits; the argument is the decimal
\* string of the big-endian unsigned value of all L bits, with no parity check
\* and whatever L; a buffer with L = 0 or L > maxBits is cleared with no
\* callback.
C25_TickDispatches ==
    [][/\ TickBody =>
             /\ data' = <<>> /\ calls' = calls
             /\ (pdpc' = "go") = (1 <= Len(data) /\ Len(data) <= maxBits)
             /\ pdpc' = "go" => arg' = SprintfWord(data)
       /\ TickGo => calls' = Append(calls, arg)]_vars

\* C25 (amended): the same, the argument being the decimal string of the
\* value of the L bits modulo 2^64: the value itself for L <= 64.
C25_TickDispatchesMod ==
    [][/\ TickBody =>
             /\ data' = <<>> /\ calls' = calls /\ running' = running
             /\ (pdpc' = "go") = (1 <= Len(data) /\ Len(data) <= maxBits)
             /\ pdpc' = "go" => arg' = DecimalMod(data)
             /\ pdpc' # "go" => pdpc' = "outer"
       /\ TickGo => (calls' = Append(calls, arg) /\ running' = running + 1)]_vars

\* C25 witness: a one followed by 63 zeros was in the buffer at a tick and
\* its callback was dispatched with 2^63.
C25_Witness ==
    /\ calls = <<"9223372036854775808">> /\ data = <<>> /\ pdpc = "outer"
    /\ script[1] = <<1>> \o Zeros(WordBits - 1) /\ maxBits > WordBits

\* C26 (original claim): the ticker-driven reader hands a frame off only
\* when the timeout has passed since the last bit with no new bit arriving:
\* bits in the buffer at a tick are a whole burst, never a part of one.
C26_HandOffAfterSilence ==
    [][(TickBody /\ data # <<>>) =>
          /\ gap >= timeout
          /\ idx = Len(script[burst])
          /\ Len(data) = Len(script[burst])]_vars

====